---- MODULE Spec2Model ----
(***************************************************************************)
(* parseEvaluationResponse of src/app/problems/[id]/page.tsx: the parser   *)
(* that turns the evaluation text of the language model into the record    *)
(* {score, strengths, improvements, missedPoints, followUp, idealResponse}.*)
(*                                                                         *)
(* A text is a sequence of characters, each character a string.  Two       *)
(* characters that a string literal of this language cannot hold are       *)
(* written by name: "BQ" is the backtick and "U2022" the bullet U+2022.    *)
(* Every regular expression of the source is an operator that computes     *)
(* what the JavaScript matcher computes: leftmost match, alternatives in   *)
(* order, greedy and lazy quantifiers with their backtracking.             *)
(*                                                                         *)
(* The second half models the ProblemPage component of the same file with  *)
(* the POST handler of src/app/api/route.ts: the component's state, its    *)
(* effects and event handlers, the requests in flight and localStorage.    *)
(***************************************************************************)
EXTENDS Integers, Sequences, FiniteSets, TLC

VARIABLES evaluation, pc, result, captured, state, route, calls, budget, localStorage

\* the variables of the parser and those of the page
parserVars == <<evaluation, pc, result, captured>>
pageVars == <<state, route, calls, budget, localStorage>>

vars == <<parserVars, pageVars>>

----------------------------------------------------------------------------
(* Characters and character classes                                        *)

BQ == "BQ"
BUL == "U2022"
NL == "\n"

\* \s restricted to the whitespace characters of the model's alphabet
IsSpace(c) == c \in {" ", "\t", "\n"}

\* \d
IsDigit(c) == c \in {"0", "1", "2", "3", "4", "5", "6", "7", "8", "9"}

\* the character class [-•*]
IsBullet(c) == c \in {"-", BUL, "*"}

LowerCase ==
    ("A" :> "a") @@ ("B" :> "b") @@ ("C" :> "c") @@ ("D" :> "d") @@ ("E" :> "e") @@
    ("F" :> "f") @@ ("G" :> "g") @@ ("H" :> "h") @@ ("I" :> "i") @@ ("J" :> "j") @@
    ("K" :> "k") @@ ("L" :> "l") @@ ("M" :> "m") @@ ("N" :> "n") @@ ("O" :> "o") @@
    ("P" :> "p") @@ ("Q" :> "q") @@ ("R" :> "r") @@ ("S" :> "s") @@ ("T" :> "t") @@
    ("U" :> "u") @@ ("V" :> "v") @@ ("W" :> "w") @@ ("X" :> "x") @@ ("Y" :> "y") @@
    ("Z" :> "z")

\* the canonicalisation of the i flag, on the letters of the alphabet
toLower(c) == IF c \in DOMAIN LowerCase THEN LowerCase[c] ELSE c

DigitVal ==
    ("0" :> 0) @@ ("1" :> 1) @@ ("2" :> 2) @@ ("3" :> 3) @@ ("4" :> 4) @@
    ("5" :> 5) @@ ("6" :> 6) @@ ("7" :> 7) @@ ("8" :> 8) @@ ("9" :> 9)

Min(S) == CHOOSE x \in S : \A y \in S : x <= y
Max(S) == CHOOSE x \in S : \A y \in S : x >= y

\* positions are 1-based; Len(t) + 1 is the end of the text
RECURSIVE SkipSpace(_, _)
SkipSpace(t, i) ==
    IF i <= Len(t) /\ IsSpace(t[i]) THEN SkipSpace(t, i + 1) ELSE i

RECURSIVE SkipDigits(_, _)
SkipDigits(t, i) ==
    IF i <= Len(t) /\ IsDigit(t[i]) THEN SkipDigits(t, i + 1) ELSE i

RECURSIVE SkipChar(_, _, _)
SkipChar(t, i, c) ==
    IF i <= Len(t) /\ t[i] = c THEN SkipChar(t, i + 1, c) ELSE i

\* the last position of t that holds no whitespace, 0 if there is none
RECURSIVE LastNonSpace(_, _)
LastNonSpace(t, i) ==
    IF i >= 1 /\ IsSpace(t[i]) THEN LastNonSpace(t, i - 1) ELSE i

\* the first position >= i that holds a newline, Len(t) + 1 if there is none
LineEnd(t, i) == Min({j \in i..Len(t) : t[j] = NL} \cup {Len(t) + 1})

\* a literal of a pattern with the i flag matches t at position i
LitAt(t, i, lit) ==
    /\ i >= 1
    /\ i + Len(lit) - 1 <= Len(t)
    /\ \A k \in 1..Len(lit) : toLower(t[i + k - 1]) = toLower(lit[k])

\* String.prototype.trim
trim(t) ==
    LET a == SkipSpace(t, 1)
        b == LastNonSpace(t, Len(t))
    IN  IF a > b THEN <<>> ELSE SubSeq(t, a, b)

\* String.prototype.includes for one character
includes(t, c) == \E i \in 1..Len(t) : t[i] = c

\* String.prototype.split for a one-character separator
RECURSIVE split(_, _)
split(t, c) ==
    LET S == {i \in 1..Len(t) : t[i] = c}
    IN  IF S = {} THEN <<t>>
        ELSE LET i == Min(S)
             IN  <<SubSeq(t, 1, i - 1)>> \o split(SubSeq(t, i + 1, Len(t)), c)

\* a regular expression that did not match: match() returned null
NoMatch == [ok |-> FALSE, g |-> <<>>]
\* a match with its first capture group
Matched(group) == [ok |-> TRUE, g |-> group]

----------------------------------------------------------------------------
(* Numbers: parseFloat of a captured \d+(?:\.\d+)? numeral.  A number is   *)
(* the exact decimal num/den with den a power of ten and no trailing zero  *)
(* in the fraction, so that "4.50" and "4.5" are the same score.           *)

RECURSIVE DigitsVal(_)
DigitsVal(ds) ==
    IF ds = <<>> THEN 0
    ELSE 10 * DigitsVal(SubSeq(ds, 1, Len(ds) - 1)) + DigitVal[ds[Len(ds)]]

RECURSIVE Pow10(_)
Pow10(n) == IF n = 0 THEN 1 ELSE 10 * Pow10(n - 1)

RECURSIVE Normalise(_, _)
Normalise(n, d) ==
    IF d > 1 /\ n % 10 = 0 THEN Normalise(n \div 10, d \div 10)
    ELSE [num |-> n, den |-> d]

Num(n, d) == Normalise(n, d)

\* parseFloat followed by a clamp to the range of the scale, Math.min(5, x)
parseFloat_Clamped(s) ==
    LET i  == SkipDigits(s, 1)
        ip == SubSeq(s, 1, i - 1)
        fp == IF i < Len(s) /\ s[i] = "." /\ IsDigit(s[i + 1])
              THEN SubSeq(s, i + 1, SkipDigits(s, i + 1) - 1)
              ELSE <<>>
    IN  IF DigitsVal(ip \o fp) > 5 * Pow10(Len(fp)) THEN [num |-> 5, den |-> 1]
        ELSE Normalise(DigitsVal(ip \o fp), Pow10(Len(fp)))

parseFloat(s) ==
    LET i  == SkipDigits(s, 1)
        ip == SubSeq(s, 1, i - 1)
        fp == IF i < Len(s) /\ s[i] = "." /\ IsDigit(s[i + 1])
              THEN SubSeq(s, i + 1, SkipDigits(s, i + 1) - 1)
              ELSE <<>>
    IN  Normalise(DigitsVal(ip \o fp), Pow10(Len(fp)))

----------------------------------------------------------------------------
(* Score: lines 106-111                                                    *)

sScore ==
    <<"S", "c", "o", "r", "e">>

\* NumberEnd with the fraction (?:\.\d+)? left out of the pattern
NumberEnd_NoFraction(t, i) == SkipDigits(t, i)

\* the end (exclusive) of \d+(?:\.\d+)? matched greedily from the digit at i
NumberEnd(t, i) ==
    LET j == SkipDigits(t, i)
    IN  IF j < Len(t) /\ t[j] = "." /\ IsDigit(t[j + 1])
        THEN SkipDigits(t, j + 1)
        ELSE j

\* ScoreLabelAt for the pattern /Score:?\s*-?(\d+(?:\.\d+)?)/i, which lets a
\* minus sign stand before the digits
ScoreLabelAt_SkipsSign(t, i) ==
    IF ~LitAt(t, i, sScore) THEN 0
    ELSE LET p == i + Len(sScore)
             q == IF p <= Len(t) /\ t[p] = ":" THEN p + 1 ELSE p
             r == SkipSpace(t, q)
             d == IF r <= Len(t) /\ t[r] = "-" THEN r + 1 ELSE r
         IN  IF d <= Len(t) /\ IsDigit(t[d]) THEN d ELSE 0

\* where the capture group of /Score:?\s*(\d+(?:\.\d+)?)/i starts when the
\* pattern matches at i, 0 when it does not.  Giving the colon back cannot
\* help: the next character would be ":", which is neither \s nor \d.
ScoreLabelAt(t, i) ==
    IF ~LitAt(t, i, sScore) THEN 0
    ELSE LET p == i + Len(sScore)
             q == IF p <= Len(t) /\ t[p] = ":" THEN p + 1 ELSE p
             r == SkipSpace(t, q)
         IN  IF r <= Len(t) /\ IsDigit(t[r]) THEN r ELSE 0

\* evaluation.match(/Score:?\s*(\d+(?:\.\d+)?)/i)
scoreLabelMatch(t) ==
    LET S == {i \in 1..Len(t) : ScoreLabelAt(t, i) # 0}
    IN  IF S = {} THEN NoMatch
        ELSE LET r == ScoreLabelAt(t, Min(S))
             IN  Matched(SubSeq(t, r, NumberEnd(t, r) - 1))

\* /(\d+(?:\.\d+)?)\s*\/\s*5/i matches at i.  Only the greedy numeral can be
\* followed by the rest: a shorter one ends before a digit or a ".", where
\* \s*\/ does not match.
ScoreSlashAt(t, i) ==
    /\ IsDigit(t[i])
    /\ LET s == SkipSpace(t, NumberEnd(t, i))
       IN  /\ s <= Len(t)
           /\ t[s] = "/"
           /\ LET u == SkipSpace(t, s + 1)
              IN  u <= Len(t) /\ t[u] = "5"

\* evaluation.match(/(\d+(?:\.\d+)?)\s*\/\s*5/i)
scoreSlashMatch(t) ==
    LET S == {i \in 1..Len(t) : ScoreSlashAt(t, i)}
    IN  IF S = {} THEN NoMatch
        ELSE Matched(SubSeq(t, Min(S), NumberEnd(t, Min(S)) - 1))

\* scoreMatch with the two patterns tried in the other order
scoreMatch_SlashFirst(t) ==
    IF scoreSlashMatch(t).ok THEN scoreSlashMatch(t) ELSE scoreLabelMatch(t)

\* const scoreMatch = evaluation.match(...) || evaluation.match(...)
scoreMatch(t) ==
    IF scoreLabelMatch(t).ok THEN scoreLabelMatch(t) ELSE scoreSlashMatch(t)

\* result.score: 0 unless scoreMatch, then parseFloat(scoreMatch[1])
score(t) ==
    IF scoreMatch(t).ok THEN parseFloat(scoreMatch(t).g) ELSE Num(0, 1)

----------------------------------------------------------------------------
(* Sections: lines 113-126                                                 *)

sStrengths ==
    <<"S", "t", "r", "e", "n", "g", "t", "h", "s">>
sStrengthsColon ==
    <<"S", "t", "r", "e", "n", "g", "t", "h", "s", ":">>
sAreasForImprovement ==
    <<"A", "r", "e", "a", "s", " ", "f", "o", "r", " ", "I", "m", "p", "r", "o", "v", "e", "m", "e", "n", "t">>
sImprovements ==
    <<"I", "m", "p", "r", "o", "v", "e", "m", "e", "n", "t", "s">>
sAreasOfImprovement ==
    <<"A", "r", "e", "a", "s", " ", "o", "f", " ", "I", "m", "p", "r", "o", "v", "e", "m", "e", "n", "t">>
sKeyPointsMissed ==
    <<"K", "e", "y", " ", "P", "o", "i", "n", "t", "s", " ", "M", "i", "s", "s", "e", "d">>
sMissedPoints ==
    <<"M", "i", "s", "s", "e", "d", " ", "P", "o", "i", "n", "t", "s">>
sMissedOpportunities ==
    <<"M", "i", "s", "s", "e", "d", " ", "O", "p", "p", "o", "r", "t", "u", "n", "i", "t", "i", "e", "s">>
sKeyPoints ==
    <<"K", "e", "y", " ", "P", "o", "i", "n", "t", "s">>
sFollowUpQuestion ==
    <<"F", "o", "l", "l", "o", "w", "-", "u", "p", " ", "Q", "u", "e", "s", "t", "i", "o", "n">>
sFollowUp ==
    <<"F", "o", "l", "l", "o", "w", "-", "u", "p">>
sIdealResponse ==
    <<"I", "d", "e", "a", "l", " ", "R", "e", "s", "p", "o", "n", "s", "e">>
sExampleAnswer ==
    <<"E", "x", "a", "m", "p", "l", "e", " ", "A", "n", "s", "w", "e", "r">>
sModelAnswer ==
    <<"M", "o", "d", "e", "l", " ", "A", "n", "s", "w", "e", "r">>

\* The table of line 114-120.  Each pattern is
\*   (?:head|head|...) [:?] \s* ([\s\S]*?) (?=stop|stop|...|$)   with flag i
\* heads in the order of the alternation; colon tells whether :? follows it.
sections ==
    [strengths |->
        [heads |-> <<sStrengths, sStrengthsColon>>,
         colon |-> FALSE,
         stops |-> <<sAreasForImprovement, sImprovements, sAreasOfImprovement,
                     sKeyPointsMissed, sMissedPoints, sFollowUp, sIdealResponse>>],
     improvements |->
        [heads |-> <<sAreasForImprovement, sImprovements, sAreasOfImprovement>>,
         colon |-> TRUE,
         stops |-> <<sKeyPointsMissed, sMissedPoints, sFollowUp, sIdealResponse>>],
     missedPoints |->
        [heads |-> <<sKeyPointsMissed, sMissedPoints, sMissedOpportunities, sKeyPoints>>,
         colon |-> TRUE,
         stops |-> <<sFollowUp, sIdealResponse>>],
     followUp |->
        [heads |-> <<sFollowUpQuestion, sFollowUp>>,
         colon |-> TRUE,
         stops |-> <<sIdealResponse>>],
     idealResponse |->
        [heads |-> <<sIdealResponse, sExampleAnswer, sModelAnswer>>,
         colon |-> TRUE,
         stops |-> <<>>]]

\* Object.entries(sections): the keys in insertion order
sectionKeys == <<"strengths", "improvements", "missedPoints", "followUp", "idealResponse">>

\* the index of the first alternative of rx.heads that matches t at i, 0 if none
HeadAt(rx, t, i) ==
    LET H == {h \in 1..Len(rx.heads) : LitAt(t, i, rx.heads[h])}
    IN  IF H = {} THEN 0 ELSE Min(H)

\* the lookahead (?=stop|...|$) holds at j
StopAt(rx, t, j) ==
    j = Len(t) + 1 \/ \E k \in 1..Len(rx.stops) : LitAt(t, j, rx.stops[k])

\* a match that takes the whole text as the section when no heading is asked for
regexMatch_WholeText(rx, t) ==
    [ok |-> TRUE, g |-> t, s |-> 1, e |-> Len(t) + 1, at |-> 1, h |-> 1]

\* evaluation.match(regex) for a pattern of the table.  The lazy group can
\* always run to the end of the text, so the match starts at the leftmost
\* head, takes the first alternative that matches there, and never
\* backtracks into the head, the colon or \s*; the group ends at the first
\* position where the lookahead holds.  at is where the match starts, h the
\* alternative of the head that matched, s and e the bounds of the group g.
regexMatch(rx, t) ==
    LET S == {i \in 1..Len(t) : HeadAt(rx, t, i) # 0}
    IN  IF S = {} THEN [ok |-> FALSE, g |-> <<>>, s |-> 0, e |-> 0, at |-> 0, h |-> 0]
        ELSE LET i == Min(S)
                 p == i + Len(rx.heads[HeadAt(rx, t, i)])
                 q == IF rx.colon /\ p <= Len(t) /\ t[p] = ":" THEN p + 1 ELSE p
                 r == SkipSpace(t, q)
                 e == Min({j \in r..(Len(t) + 1) : StopAt(rx, t, j)})
             IN  [ok |-> TRUE, g |-> SubSeq(t, r, e - 1), s |-> r, e |-> e, at |-> i,
                  h |-> HeadAt(rx, t, i)]

----------------------------------------------------------------------------
(* List sections: lines 128-175                                            *)

\* content.replace(/^\s*[-•*]\s*/, '').trim()
cleanedContent(content) ==
    LET a == SkipSpace(content, 1)
    IN  trim(IF a <= Len(content) /\ IsBullet(content[a])
             THEN SubSeq(content, SkipSpace(content, a + 1), Len(content))
             ELSE content)

\* the end (exclusive) of the marker [-•*] or \d+\. at p, 0 if there is none
MarkerEnd(s, p, kind) ==
    IF p > Len(s) THEN 0
    ELSE IF kind = "bullet" THEN (IF IsBullet(s[p]) THEN p + 1 ELSE 0)
    ELSE IF ~IsDigit(s[p]) THEN 0
    ELSE LET j == SkipDigits(s, p)
         IN  IF j <= Len(s) /\ s[j] = "." THEN j + 1 ELSE 0

\* the lookahead (?=(?:\n[-•*]|\n\d+\.|\n\n|$)) holds at e
ItemLook(s, e) ==
    \/ e = Len(s) + 1
    \/ /\ e < Len(s)
       /\ s[e] = NL
       /\ \/ IsBullet(s[e + 1])
          \/ s[e + 1] = NL
          \/ MarkerEnd(s, e + 1, "number") # 0

\* \s+(.+?)(?=...) from the end m of a marker: the end (exclusive) of the
\* match, 0 if there is none.  \s+ is greedy and gives whitespace back one
\* character at a time; (.+?) takes at least one character, none of them a
\* newline, so from v it can end only at the end of v's line.
ItemBodyEnd(s, m) ==
    LET w == SkipSpace(s, m)
        C == {v \in (m + 1)..w :
                 v <= Len(s) /\ s[v] # NL /\ ItemLook(s, LineEnd(s, v))}
    IN  IF C = {} THEN 0 ELSE LineEnd(s, Max(C))

\* (?:^|\n) marker \s+(.+?)(?=...) at i: the end (exclusive) of the match, 0
\* if there is none.  Without the m flag ^ is the start of the text only.
ItemAt(s, i, kind) ==
    LET viaStart == IF i = 1 /\ MarkerEnd(s, 1, kind) # 0
                    THEN ItemBodyEnd(s, MarkerEnd(s, 1, kind)) ELSE 0
        viaNL    == IF s[i] = NL /\ MarkerEnd(s, i + 1, kind) # 0
                    THEN ItemBodyEnd(s, MarkerEnd(s, i + 1, kind)) ELSE 0
    IN  IF viaStart # 0 THEN viaStart ELSE viaNL

\* String.prototype.match with the g flag: every match, left to right, each
\* search starting where the one before ended (<<>> stands for null)
RECURSIVE itemMatches(_, _, _)
itemMatches(s, from, kind) ==
    LET S == {i \in from..Len(s) : ItemAt(s, i, kind) # 0}
    IN  IF S = {} THEN <<>>
        ELSE LET i == Min(S)
                 e == ItemAt(s, i, kind)
             IN  <<SubSeq(s, i, e - 1)>> \o itemMatches(s, e, kind)

\* cleanedContent.match(/(?:^|\n)[-•*]\s+(.+?)(?=(?:\n[-•*]|\n\d+\.|\n\n|$))/g)
bulletMatch(s) == itemMatches(s, 1, "bullet")

\* cleanedContent.match(/(?:^|\n)\d+\.\s+(.+?)(?=(?:\n[-•*]|\n\d+\.|\n\n|$))/g)
numberedMatch(s) == itemMatches(s, 1, "number")

\* .replace(/^[-•*]\s+/, '')
removeBullet(p) ==
    IF p # <<>> /\ IsBullet(p[1]) /\ SkipSpace(p, 2) > 2
    THEN SubSeq(p, SkipSpace(p, 2), Len(p)) ELSE p

\* .replace(/^\d+\.\s+/, '')
removeNumber(p) ==
    LET m == MarkerEnd(p, 1, "number")
    IN  IF m # 0 /\ SkipSpace(p, m) > m THEN SubSeq(p, SkipSpace(p, m), Len(p)) ELSE p

\* .replace(/^\n+/, '')
removeNewlines(p) == SubSeq(p, SkipChar(p, 1, NL), Len(p))

\* Method 1, the callback of matches.map
cleanMatch(point) == trim(removeNewlines(removeNumber(removeBullet(point))))

\* Method 2, the callback of split('\n').map
cleanLine(point) == removeNumber(removeBullet(trim(point)))

\* /^[-•*]$/.test(point)
IsBulletOnly(point) == Len(point) = 1 /\ IsBullet(point[1])

NonEmpty(point) == Len(point) > 0
LongerThanOne(point) == Len(point) > 1
NotBulletOnly(point) == ~IsBulletOnly(point)

\* the points before the post-filter: Method 1, 2 or 3
splitPoints(cleaned) ==
    LET matches == bulletMatch(cleaned) \o numberedMatch(cleaned)
    IN  IF matches # <<>>
        THEN [k \in 1..Len(matches) |-> cleanMatch(matches[k])]
        ELSE IF includes(cleaned, NL)
        THEN LET lines == split(cleaned, NL)
             IN  SelectSeq([k \in 1..Len(lines) |-> cleanLine(lines[k])], NonEmpty)
        ELSE <<cleaned>>

\* points without the fallback of lines 172-175: the filtered points alone
points_NoFallback(content) ==
    SelectSeq(SelectSeq(splitPoints(cleanedContent(content)), LongerThanOne),
              NotBulletOnly)

\* the value stored for a list section whose trimmed capture is content
points(content) ==
    LET cleaned  == cleanedContent(content)
        filtered == SelectSeq(SelectSeq(splitPoints(cleaned), LongerThanOne),
                              NotBulletOnly)
    IN  IF Len(filtered) > 0 THEN filtered ELSE <<removeBullet(cleaned)>>

----------------------------------------------------------------------------
(* Follow-up: lines 176-186                                                *)

\* .replace(/^\s*\*+\s*/, '')
removeLeadingAsterisks(t) ==
    LET a == SkipSpace(t, 1)
        b == SkipChar(t, a, "*")
    IN  IF b > a THEN SubSeq(t, SkipSpace(t, b), Len(t)) ELSE t

\* \s*\*+\s*$ matches at i: the classes are disjoint, so only the greedy
\* choice can reach the end of the text
TrailingAsterisksAt(t, i) ==
    LET a == SkipSpace(t, i)
        b == SkipChar(t, a, "*")
    IN  b > a /\ SkipSpace(t, b) = Len(t) + 1

\* .replace(/\s*\*+\s*$/, ''): the leftmost match
removeTrailingAsterisks(t) ==
    LET S == {i \in 1..Len(t) : TrailingAsterisksAt(t, i)}
    IN  IF S = {} THEN t ELSE SubSeq(t, 1, Min(S) - 1)

\* .replace(/^###\s+/, '')
removeH3(t) ==
    IF LitAt(t, 1, <<"#", "#", "#">>) /\ SkipSpace(t, 4) > 4
    THEN SubSeq(t, SkipSpace(t, 4), Len(t)) ELSE t

followUpText(content) ==
    removeH3(trim(removeTrailingAsterisks(removeLeadingAsterisks(content))))

----------------------------------------------------------------------------
(* Ideal response: lines 187-201                                           *)

sPython ==
    <<"p", "y", "t", "h", "o", "n">>

Fence == <<BQ, BQ, BQ>>

FenceAt(t, i) == i + 2 <= Len(t) /\ t[i] = BQ /\ t[i + 1] = BQ /\ t[i + 2] = BQ

\* ^ with the m flag
AtLineStart(t, i) == i = 1 \/ t[i - 1] = NL

\* /```\s*\n/ at i: the end (exclusive) of the match, 0 if there is none.
\* \s* is greedy and gives back down to the last newline of the whitespace.
OpenFenceEnd(t, i) ==
    IF ~FenceAt(t, i) THEN 0
    ELSE LET w == SkipSpace(t, i + 3)
             N == {e \in (i + 3)..(w - 1) : t[e] = NL}
         IN  IF N = {} THEN 0 ELSE Max(N) + 1

\* the text from from on with no language tag added
addLanguage_None(t, from) == SubSeq(t, from, Len(t))

\* .replace(/```\s*\n/g, '```python\n')
RECURSIVE addLanguage(_, _)
addLanguage(t, from) ==
    LET S == {i \in from..Len(t) : OpenFenceEnd(t, i) # 0}
    IN  IF S = {} THEN SubSeq(t, from, Len(t))
        ELSE SubSeq(t, from, Min(S) - 1) \o Fence \o sPython \o <<NL>>
             \o addLanguage(t, OpenFenceEnd(t, Min(S)))

\* /^```\s*$/ with the m flag at i: the end (exclusive) of the match, 0 if
\* there is none.  $ holds at the end of the text and before a newline.
LoneFenceEnd(t, i) ==
    IF ~(AtLineStart(t, i) /\ FenceAt(t, i)) THEN 0
    ELSE LET w == SkipSpace(t, i + 3)
             E == {e \in (i + 3)..w : e = Len(t) + 1 \/ t[e] = NL}
         IN  IF E = {} THEN 0 ELSE Max(E)

\* .replace(/^```\s*$/gm, '```')
RECURSIVE loneFences(_, _)
loneFences(t, from) ==
    LET S == {i \in from..Len(t) : LoneFenceEnd(t, i) # 0}
    IN  IF S = {} THEN SubSeq(t, from, Len(t))
        ELSE SubSeq(t, from, Min(S) - 1) \o Fence
             \o loneFences(t, LoneFenceEnd(t, Min(S)))

\* /^`{1,2}(?!`)/ with the m flag at i: the end (exclusive) of the match, 0
\* if there is none: a run of exactly one or two backticks
StrayEnd(t, i) ==
    IF ~(AtLineStart(t, i) /\ t[i] = BQ) THEN 0
    ELSE LET b == SkipChar(t, i, BQ)
         IN  IF b - i <= 2 THEN b ELSE 0

\* .replace(/^`{1,2}(?!`)/gm, '')
RECURSIVE strayBackticks(_, _)
strayBackticks(t, from) ==
    LET S == {i \in from..Len(t) : StrayEnd(t, i) # 0}
    IN  IF S = {} THEN SubSeq(t, from, Len(t))
        ELSE SubSeq(t, from, Min(S) - 1) \o strayBackticks(t, StrayEnd(t, Min(S)))

\* the text from from on with no newline inserted
fenceOnOwnLine_None(t, from) == SubSeq(t, from, Len(t))

\* .replace(/(?<!\n)```/g, '\n```')
RECURSIVE fenceOnOwnLine(_, _)
fenceOnOwnLine(t, from) ==
    LET S == {i \in from..Len(t) : FenceAt(t, i) /\ ~(i > 1 /\ t[i - 1] = NL)}
    IN  IF S = {} THEN SubSeq(t, from, Len(t))
        ELSE SubSeq(t, from, Min(S) - 1) \o <<NL>> \o Fence
             \o fenceOnOwnLine(t, Min(S) + 3)

idealResponseText(content) ==
    fenceOnOwnLine(strayBackticks(loneFences(addLanguage(content, 1), 1), 1), 1)


----------------------------------------------------------------------------
(* The ProblemPage component: the values its state starts from             *)

\* null and undefined
Null == "null"

\* the argument of useState<InterviewState>; difficulty is the optional field
InitialState ==
    [category |-> Null, isActive |-> FALSE, currentStep |-> "idle",
     messages |-> <<>>, isLoading |-> FALSE, currentQuestion |-> <<>>,
     textInput |-> <<>>, voiceModeEnabled |-> FALSE, hints |-> <<>>,
     difficulty |-> Null]

\* a localStorage without keys
EmptyStorage == [k \in {} |-> Null]

----------------------------------------------------------------------------
(* parseEvaluationResponse as a state machine: the score, then one step    *)
(* per entry of the sections table, in the order of Object.entries.        *)

\* const result = {score: 0, strengths: [], ...}: lines 96-104
emptyResult ==
    [score |-> Num(0, 1), strengths |-> <<>>, improvements |-> <<>>,
     missedPoints |-> <<>>, followUp |-> <<>>, idealResponse |-> <<>>]

\* the value a section stores for its trimmed capture: lines 128-205
sectionValue(key, content) ==
    IF key \in {"strengths", "improvements", "missedPoints"} THEN points(content)
    ELSE IF key = "followUp" THEN followUpText(content)
    ELSE idealResponseText(content)

Keys == {sectionKeys[n] : n \in 1..Len(sectionKeys)}
ListKeys == {"strengths", "improvements", "missedPoints"}

\* nextStep when the callback of the follow-up entry throws: the run leaves
\* the pipeline
nextStep_Throws(key) ==
    IF key = "followUp" THEN "thrown"
    ELSE LET k == CHOOSE n \in 1..Len(sectionKeys) : sectionKeys[n] = key
         IN  IF k = Len(sectionKeys) THEN "done" ELSE sectionKeys[k + 1]

\* the position after key in the pipeline
nextStep(key) ==
    LET k == CHOOSE n \in 1..Len(sectionKeys) : sectionKeys[n] = key
    IN  IF k = Len(sectionKeys) THEN "done" ELSE sectionKeys[k + 1]

\* no entry of the table has been matched against the text yet
NoCapture == [ok |-> FALSE, g |-> <<>>, s |-> 0, e |-> 0, at |-> 0, h |-> 0]

\* the state at the entry of parseEvaluationResponse(t); no page is mounted, no
\* request is in flight and nothing is stored
Start(t) ==
    /\ evaluation = t
    /\ pc = "score"
    /\ result = emptyResult
    /\ captured = [k \in Keys |-> NoCapture]
    /\ state = InitialState
    /\ route = [id |-> 0, category |-> Null, phase |-> "left"]
    /\ calls = {}
    /\ budget = 0
    /\ localStorage = EmptyStorage

\* lines 106-111
ExtractScore ==
    /\ pc = "score"
    /\ result' = [result EXCEPT !.score = score(evaluation)]
    /\ pc' = sectionKeys[1]
    /\ UNCHANGED <<evaluation, captured>>
    /\ UNCHANGED pageVars

\* one call of the forEach callback: lines 123-207
ExtractSection ==
    /\ pc \in Keys
    /\ LET match == regexMatch(sections[pc], evaluation)
       IN  /\ captured' = [captured EXCEPT ![pc] = match]
           /\ result' = IF match.ok /\ match.g # <<>> /\ trim(match.g) # <<>>
                        THEN [result EXCEPT ![pc] = sectionValue(pc, trim(match.g))]
                        ELSE result
    /\ pc' = nextStep(pc)
    /\ UNCHANGED evaluation
    /\ UNCHANGED pageVars

Next == ExtractScore \/ ExtractSection

----------------------------------------------------------------------------
(* Input texts                                                             *)

\* f[1] \o ... \o f[n]
RECURSIVE Cat(_, _)
Cat(f, n) == IF n = 0 THEN <<>> ELSE Cat(f, n - 1) \o f[n]

\* every concatenation of at most n of the fragments
Texts(fragments, n) ==
    {Cat(f, Cardinality(DOMAIN f)) : f \in UNION {[1..k -> fragments] : k \in 0..n}}

\* the end-to-end scenario of the specification, and its expected fields
EndToEndText ==
    <<"S", "c", "o", "r", "e", ":", " ", "4", "/", "5", "\n", "S", "t", "r",
      "e", "n", "g", "t", "h", "s", ":", " ", "-", " ", "C", "l", "e", "a",
      "r", " ", "e", "x", "p", "l", "a", "n", "a", "t", "i", "o", "n", " ",
      "-", " ", "G", "o", "o", "d", " ", "e", "x", "a", "m", "p", "l", "e",
      "\n", "A", "r", "e", "a", "s", " ", "f", "o", "r", " ", "I", "m", "p",
      "r", "o", "v", "e", "m", "e", "n", "t", ":", " ", "C", "o", "u", "l",
      "d", " ", "m", "e", "n", "t", "i", "o", "n", " ", "e", "d", "g", "e",
      " ", "c", "a", "s", "e", "s", "\n", "F", "o", "l", "l", "o", "w", "-",
      "u", "p", ":", " ", "*", "*", "W", "h", "a", "t", " ", "a", "b", "o",
      "u", "t", " ", "c", "o", "n", "c", "u", "r", "r", "e", "n", "t", " ",
      "w", "r", "i", "t", "e", "s", "?", "*", "*">>
sClearExplanation ==
    <<"C", "l", "e", "a", "r", " ", "e", "x", "p", "l", "a", "n", "a", "t",
      "i", "o", "n">>
sGoodExample ==
    <<"G", "o", "o", "d", " ", "e", "x", "a", "m", "p", "l", "e">>
sCouldMention ==
    <<"C", "o", "u", "l", "d", " ", "m", "e", "n", "t", "i", "o", "n", " ",
      "e", "d", "g", "e", " ", "c", "a", "s", "e", "s">>
sWhatAbout ==
    <<"W", "h", "a", "t", " ", "a", "b", "o", "u", "t", " ", "c", "o", "n",
      "c", "u", "r", "r", "e", "n", "t", " ", "w", "r", "i", "t", "e", "s",
      "?">>

\* an ideal response with a fenced block that names no language
FencedText ==
    <<"I", "d", "e", "a", "l", " ", "R", "e", "s", "p", "o", "n", "s", "e",
      ":", "\n", "BQ", "BQ", "BQ", "\n", "c", "o", "d", "e", "\n", "BQ",
      "BQ", "BQ">>

\* the three bullet lines "- a", "- b", "- c"
BulletLines ==
    <<"-", " ", "a", "\n", "-", " ", "b", "\n", "-", " ", "c">>

sGood ==
    <<"g", "o", "o", "d">>

Examples == {<<>>, EndToEndText, FencedText}

\* One section of an evaluation: a heading as the language model writes it
\* (plain with a colon, plain on a line of its own, a markdown h3, bold), a
\* body, and the end of the line.
Headings == {sStrengths, sImprovements, sKeyPoints, sFollowUp, sIdealResponse, sModelAnswer}
Bodies == {sGood, BulletLines}
Styled(style, heading) ==
    CASE style = "colon" -> heading \o <<":", " ">>
      [] style = "line"  -> heading \o <<NL>>
      [] style = "h3"    -> <<"#", "#", "#", " ">> \o heading \o <<NL>>
      [] style = "bold"  -> <<"*", "*">> \o heading \o <<":", "*", "*", NL>>
Blocks ==
    {Styled(style, heading) \o body \o <<NL>> :
        style \in {"colon", "line", "h3", "bold"}, heading \in Headings, body \in Bodies}

\* the number of sections of a generated evaluation
MaxBlocks == 2

SectionTexts == Texts(Blocks, MaxBlocks)

\* Texts around a score: the label with and without colon, numerals, "/5",
\* whitespace, a minus sign and a dot.
ScoreFragments ==
    {<<"S", "c", "o", "r", "e", ":", " ">>, <<"S", "C", "O", "R", "E">>,
     <<"4", ".", "5">>, <<"3">>, <<"/", "5">>, <<" ">>, <<"-">>, <<".">>}

\* the number of fragments of a generated score text
MaxScoreFrags == 4

ScoreTexts == Texts(ScoreFragments, MaxScoreFrags)

----------------------------------------------------------------------------
(* Specifications: the parser run on the example and section texts, and    *)
(* on the score texts.                                                     *)

Init == \E t \in Examples \cup SectionTexts : Start(t)

Spec == Init /\ [][Next]_vars

InitScore == \E t \in ScoreTexts : Start(t)

SpecScore == InitScore /\ [][Next]_vars

----------------------------------------------------------------------------
(* Vocabulary of the properties.  These definitions describe the texts of  *)
(* the claims by position, without the matcher of the model.               *)

\* t holds lit at i, letter case included
Occurs(t, i, lit) ==
    /\ i >= 1
    /\ i + Len(lit) - 1 <= Len(t)
    /\ \A k \in 1..Len(lit) : t[i + k - 1] = lit[k]

Contains(t, lit) == \E i \in 1..Len(t) : Occurs(t, i, lit)

\* t holds lit somewhere, in any letter case
ContainsAnyCase(t, lit) == \E i \in 1..Len(t) : LitAt(t, i, lit)

AllSpace(t, a, b) == \A j \in a..b : IsSpace(t[j])
AllDigits(t, a, b) == \A j \in a..b : IsDigit(t[j])

\* t[a..e-1] is digits, or digits "." digits
IsNumeral(t, a, e) ==
    /\ a < e
    /\ e <= Len(t) + 1
    /\ \E k \in a..(e - 1) :
          /\ AllDigits(t, a, k)
          /\ \/ k = e - 1
             \/ k + 2 <= e - 1 /\ t[k + 1] = "." /\ AllDigits(t, k + 2, e - 1)

\* the numeral that starts at a and cannot be extended
IsWholeNumeral(t, a, e) ==
    /\ IsNumeral(t, a, e)
    /\ \A e2 \in (e + 1)..(Len(t) + 1) : ~IsNumeral(t, a, e2)

\* the word Score in any letter case at i, an optional colon, optional
\* whitespace, and then a digit at d
LabelledScore(t, i, d) ==
    /\ LitAt(t, i, sScore)
    /\ d >= i + Len(sScore)
    /\ d <= Len(t)
    /\ IsDigit(t[d])
    /\ \/ AllSpace(t, i + Len(sScore), d - 1)
       \/ /\ d > i + Len(sScore)
          /\ t[i + Len(sScore)] = ":"
          /\ AllSpace(t, i + Len(sScore) + 1, d - 1)

HasLabelledScore(t) ==
    \E i \in 1..Len(t) :
        LitAt(t, i, sScore) /\ \E d \in i..Len(t) : LabelledScore(t, i, d)

\* the labelled score at i is the first of the text
FirstLabelledScore(t, i, d) ==
    /\ LabelledScore(t, i, d)
    /\ \A j \in 1..(i - 1) :
          LitAt(t, j, sScore) => \A d2 \in j..Len(t) : ~LabelledScore(t, j, d2)

\* position e is followed by "/5", whitespace allowed around the slash
SlashFiveAfter(t, e) ==
    \E s \in e..Len(t) :
        /\ t[s] = "/"
        /\ AllSpace(t, e, s - 1)
        /\ \E f \in (s + 1)..Len(t) : t[f] = "5" /\ AllSpace(t, s + 1, f - 1)

\* the whole numeral t[a..e-1] is followed by "/5"
SlashScore(t, a, e) == IsWholeNumeral(t, a, e) /\ SlashFiveAfter(t, e)

HasSlashScore(t) ==
    \E a \in 1..Len(t) :
        IsDigit(t[a]) /\ \E e \in (a + 1)..(Len(t) + 1) : SlashScore(t, a, e)

\* the value of the numeral s as a decimal without trailing zeros
RECURSIVE IntFrom(_, _, _)
IntFrom(ds, k, acc) ==
    IF k > Len(ds) THEN acc ELSE IntFrom(ds, k + 1, 10 * acc + DigitVal[ds[k]])

RECURSIVE DropZeros(_)
DropZeros(ds) ==
    IF ds # <<>> /\ ds[Len(ds)] = "0" THEN DropZeros(SubSeq(ds, 1, Len(ds) - 1)) ELSE ds

DecimalValue(s) ==
    LET dots == {k \in 1..Len(s) : s[k] = "."}
        ip   == IF dots = {} THEN s ELSE SubSeq(s, 1, Min(dots) - 1)
        fp   == IF dots = {} THEN <<>> ELSE DropZeros(SubSeq(s, Min(dots) + 1, Len(s)))
    IN  [num |-> IntFrom(ip \o fp, 1, 0), den |-> Pow10(Len(fp))]

sScoreFourFive ==
    <<"S", "c", "o", "r", "e", ":", " ", "4", ".", "5">>
sThreeOfFive ==
    <<"3", "/", "5">>
sScoreColon ==
    <<"S", "c", "o", "r", "e", ":">>

----------------------------------------------------------------------------
(* C1: the end-to-end scenario.                                            *)

\* C1: parseEvaluationResponse of the end-to-end text returns score 4,
\* strengths ["Clear explanation", "Good example"], improvements ["Could
\* mention edge cases"], followUp "What about concurrent writes?" and an
\* empty idealResponse.
C1_EndToEnd ==
    (pc = "done" /\ evaluation = EndToEndText) =>
        /\ result.score = [num |-> 4, den |-> 1]
        /\ result.strengths = <<sClearExplanation, sGoodExample>>
        /\ result.improvements = <<sCouldMention>>
        /\ result.followUp = sWhatAbout
        /\ result.idealResponse = <<>>

\* C2: a list section whose captured text is the lines "- a", "- b", "- c"
\* yields exactly the items a, b, c in that order.
C2_ThreeBullets ==
    \A k \in ListKeys :
        (pc = "done" /\ captured[k].ok /\ trim(captured[k].g) = BulletLines) =>
            result[k] = << <<"a">>, <<"b">>, <<"c">> >>

\* C3: for every section, the captured text never begins with the colon
\* that followed the section's heading.
C3_ColonConsumed ==
    \A k \in Keys :
        captured[k].ok =>
            ~ /\ captured[k].s = captured[k].at + Len(sections[k].heads[captured[k].h])
              /\ captured[k].s <= Len(evaluation)
              /\ evaluation[captured[k].s] = ":"

----------------------------------------------------------------------------
(* C4-C7: the score.                                                       *)

FourAndAHalf == [num |-> 45, den |-> 10]
Three == [num |-> 3, den |-> 1]
Zero == [num |-> 0, den |-> 1]

\* C4 as stated: every text that contains "Score: 4.5" has score 4.5, and
\* every text that contains "3/5" and no "Score:" has score 3.
C4_AnyOccurrence ==
    pc = "done" =>
        /\ Contains(evaluation, sScoreFourFive) => result.score = FourAndAHalf
        /\ (Contains(evaluation, sThreeOfFive) /\ ~Contains(evaluation, sScoreColon))
               => result.score = Three

\* the first labelled score of t is "Score: 4.5" at i, and no digit follows it
FirstScoreIsFourFive(t, i) ==
    /\ Occurs(t, i, sScoreFourFive)
    /\ FirstLabelledScore(t, i, i + 7)
    /\ ~(i + 10 <= Len(t) /\ IsDigit(t[i + 10]))

\* t has no labelled score, and its first number followed by "/5" is the
\* "3/5" at i, whose 3 is not the end of a longer numeral
FirstSlashIsThree(t, i) ==
    /\ Occurs(t, i, sThreeOfFive)
    /\ ~HasLabelledScore(t)
    /\ ~(i > 1 /\ IsDigit(t[i - 1]))
    /\ ~(i > 2 /\ t[i - 1] = "." /\ IsDigit(t[i - 2]))
    /\ \A a \in 1..(i - 1) :
          IsDigit(t[a]) => \A e \in (a + 1)..i : ~SlashScore(t, a, e)

\* C4, amended: a text whose first labelled score is "Score: 4.5", with no
\* further digit, has score 4.5; a text without labelled score whose first
\* number followed by "/5" is a "3/5" that ends no longer numeral has score 3.
C4_FirstOccurrence ==
    pc = "done" =>
        \A i \in 1..Len(evaluation) :
            /\ FirstScoreIsFourFive(evaluation, i) => result.score = FourAndAHalf
            /\ FirstSlashIsThree(evaluation, i) => result.score = Three

\* a case of C4 happens after other text: the labelled 4.5 in a text that
\* also holds "3/5", or the unlabelled "3/5" in a text that begins with
\* another number
C4_Witness ==
    /\ pc = "done"
    /\ \E i \in 2..Len(evaluation) :
          \/ FirstScoreIsFourFive(evaluation, i) /\ result.score = FourAndAHalf
                /\ Contains(evaluation, sThreeOfFive)
          \/ FirstSlashIsThree(evaluation, i) /\ result.score = Three
                /\ IsDigit(evaluation[1])

\* C5: when a labelled score occurs anywhere in the text, the score is the
\* number of the first one, also when a number followed by "/5" stands
\* before it; without a labelled score, the score is 0 or a number that is
\* followed by "/5".
C5_LabelBeforeSlash ==
    pc = "done" =>
        /\ \A i \in 1..Len(evaluation) :
              LitAt(evaluation, i, sScore) =>
                  \A d \in i..Len(evaluation) :
                      FirstLabelledScore(evaluation, i, d) =>
                          \A e \in (d + 1)..(Len(evaluation) + 1) :
                              IsWholeNumeral(evaluation, d, e) =>
                                  result.score = DecimalValue(SubSeq(evaluation, d, e - 1))
        /\ ~HasLabelledScore(evaluation) =>
              \/ result.score = Zero
              \/ \E a \in 1..Len(evaluation) :
                    /\ IsDigit(evaluation[a])
                    /\ \E e \in (a + 1)..(Len(evaluation) + 1) :
                          /\ SlashScore(evaluation, a, e)
                          /\ result.score = DecimalValue(SubSeq(evaluation, a, e - 1))

\* a number followed by "/5" stands before the labelled score, and the score
\* is the labelled one, which differs
C5_Witness ==
    /\ pc = "done"
    /\ \E i \in 1..Len(evaluation) :
          /\ LitAt(evaluation, i, sScore)
          /\ \E d \in i..Len(evaluation) : FirstLabelledScore(evaluation, i, d)
          /\ \E a \in 1..i, e \in 1..i :
                /\ SlashScore(evaluation, a, e)
                /\ result.score # DecimalValue(SubSeq(evaluation, a, e - 1))

StatedScore(t, d, e, minus) ==
    /\ IsDigit(t[d])
    /\ IsWholeNumeral(t, d, e)
    /\ minus = (d > 1 /\ t[d - 1] = "-")
    /\ \/ \E i \in 1..d : FirstLabelledScore(t, i, d)
       \/ /\ ~HasLabelledScore(t)
          /\ SlashFiveAfter(t, e)
          /\ \A a \in 1..(d - 1) :
                IsDigit(t[a]) => \A e2 \in (a + 1)..(Len(t) + 1) : ~SlashScore(t, a, e2)

\* the first labelled score of t has a minus sign before the digit at d
FirstSignedLabel(t, i, d) ==
    /\ LitAt(t, i, sScore)
    /\ \A j \in 1..(i - 1) : ~LitAt(t, j, sScore)
    /\ d > i + Len(sScore)
    /\ d <= Len(t)
    /\ IsDigit(t[d])
    /\ t[d - 1] = "-"
    /\ \/ AllSpace(t, i + Len(sScore), d - 2)
       \/ t[i + Len(sScore)] = ":" /\ AllSpace(t, i + Len(sScore) + 1, d - 2)

Negated(v) == [num |-> 0 - v.num, den |-> v.den]

\* C7 as stated: the score is the value the text states after the label or
\* before "/5", values above 5 and negative values included.
C7_SignedPassThrough ==
    pc = "done" =>
        \A d \in 1..Len(evaluation) :
            IsDigit(evaluation[d]) =>
                \A e \in (d + 1)..(Len(evaluation) + 1) :
                    /\ StatedScore(evaluation, d, e, FALSE)
                          => result.score = DecimalValue(SubSeq(evaluation, d, e - 1))
                    /\ (StatedScore(evaluation, d, e, TRUE)
                        \/ (IsWholeNumeral(evaluation, d, e)
                            /\ \E i \in 1..d : FirstSignedLabel(evaluation, i, d)))
                          => result.score = Negated(DecimalValue(SubSeq(evaluation, d, e - 1)))

\* C7, amended: the score is the unsigned value the text states after the
\* label or before "/5", whatever its size and whether or not a minus sign
\* stands before it; the score is never negative.
C7_UnsignedPassThrough ==
    pc = "done" =>
        /\ result.score.num >= 0
        /\ \A d \in 1..Len(evaluation) :
              IsDigit(evaluation[d]) =>
                  \A e \in (d + 1)..(Len(evaluation) + 1), minus \in BOOLEAN :
                      StatedScore(evaluation, d, e, minus)
                          => result.score = DecimalValue(SubSeq(evaluation, d, e - 1))

\* a stated value above 5 is returned
C7_Witness ==
    /\ pc = "done"
    /\ result.score.num > 5 * result.score.den
    /\ \E d \in 1..Len(evaluation) :
          /\ IsDigit(evaluation[d])
          /\ \E e \in (d + 1)..(Len(evaluation) + 1) :
                /\ StatedScore(evaluation, d, e, FALSE)
                /\ result.score = DecimalValue(SubSeq(evaluation, d, e - 1))

----------------------------------------------------------------------------
(* C8-C10: section boundaries, markdown headings, list markers.            *)

\* the sections after k in the order of the table
LaterKeys(k) ==
    LET n == CHOOSE m \in 1..Len(sectionKeys) : sectionKeys[m] = k
    IN  {sectionKeys[m] : m \in (n + 1)..Len(sectionKeys)}

\* C8: no section's captured text contains a heading, in any variant of the
\* table, of a later section.
C8_StopsAtLaterHeading ==
    \A k \in Keys :
        captured[k].ok =>
            \A k2 \in LaterKeys(k) :
                \A h \in 1..Len(sections[k2].heads) :
                    ~ContainsAnyCase(captured[k].g, sections[k2].heads[h])

\* the character at i is markdown around a heading: "#", "*" and spaces up
\* to the heading, or "*" right after the heading and its colon
HeadingMarkup(t, i) ==
    \E k \in Keys :
        \E h \in 1..Len(sections[k].heads) :
            \E a \in 1..Len(t) :
                /\ LitAt(t, a, sections[k].heads[h])
                /\ LET b  == a + Len(sections[k].heads[h])
                       b2 == IF b <= Len(t) /\ t[b] = ":" THEN b + 1 ELSE b
                   IN  \/ i < a /\ \A j \in i..(a - 1) : t[j] \in {"#", "*", " "}
                       \/ i >= b2 /\ \A j \in b2..i : t[j] = "*"

\* "#" and "*" occur in t only as the markdown of headings
OnlyHeadingMarkup(t) ==
    \A i \in 1..Len(t) : t[i] \in {"#", "*"} => HeadingMarkup(t, i)

NoMarkup(s) == \A i \in 1..Len(s) : s[i] \notin {"#", "*"}

\* C9: the "#" and "**" around a heading appear in no item and no text of
\* the result.
C9_MarkupConsumed ==
    (pc = "done" /\ OnlyHeadingMarkup(evaluation)) =>
        /\ \A k \in ListKeys : \A n \in 1..Len(result[k]) : NoMarkup(result[k][n])
        /\ NoMarkup(result.followUp)
        /\ NoMarkup(result.idealResponse)

\* p begins with a bullet or number marker and whitespace
StartsWithMarker(p) ==
    \/ Len(p) >= 2 /\ IsBullet(p[1]) /\ IsSpace(p[2])
    \/ \E k \in 1..Len(p) :
          /\ AllDigits(p, 1, k)
          /\ k + 2 <= Len(p)
          /\ p[k + 1] = "."
          /\ IsSpace(p[k + 2])

\* C10: when the bullet or number matching of Method 1 finds items, no
\* returned item begins with a marker.
C10_MarkersStripped ==
    \A k \in ListKeys :
        (/\ pc = "done"
         /\ captured[k].ok
         /\ trim(captured[k].g) # <<>>
         /\ bulletMatch(cleanedContent(trim(captured[k].g)))
               \o numberedMatch(cleanedContent(trim(captured[k].g))) # <<>>)
            => \A n \in 1..Len(result[k]) : ~StartsWithMarker(result[k][n])

----------------------------------------------------------------------------
(* List sections on generated bodies: a heading of a list section, or no   *)
(* heading, and a body of a few lines.                                     *)

ListHeads ==
    {<<>>, <<"S", "t", "r", "e", "n", "g", "t", "h", "s", NL>>, <<"I", "m", "p", "r", "o", "v", "e", "m", "e", "n", "t", "s", ":", NL>>, <<"M", "i", "s", "s", "e", "d", " ", "P", "o", "i", "n", "t", "s", NL>>}

\* the lines of a body: a bullet item, a numbered item, plain text, an
\* indented continuation, a blank line, a lone bullet marker, and the
\* heading of a later section
ListLines ==
    {<<"-", " ", "a", "b", NL>>, <<"1", ".", " ", "c", "d", NL>>, <<"e", "f", NL>>, <<" ", " ", "g", "h", NL>>, <<NL>>, <<"*", NL>>,
     <<"F", "o", "l", "l", "o", "w", "-", "u", "p", NL>>}

\* the number of lines of a generated list body
MaxListLines == 3

ListTexts == {h \o b : h \in ListHeads, b \in Texts(ListLines, MaxListLines)}

InitList == \E t \in ListTexts : Start(t)

SpecList == InitList /\ [][Next]_vars

----------------------------------------------------------------------------
(* C11-C13: multi-line items, empty lists, the fallback item.              *)

\* i is the start of a line of s
LineStart(s, i) == i = 1 \/ s[i - 1] = NL

\* s[i..e-1] is a bullet marker or a number marker
IsMarker(s, i, e) ==
    \/ e = i + 1 /\ IsBullet(s[i])
    \/ e > i + 1 /\ e - 1 <= Len(s) /\ AllDigits(s, i, e - 2) /\ s[e - 1] = "."

\* a marker and a space stand at i
MarkedLine(s, i, e) ==
    /\ LineStart(s, i)
    /\ IsMarker(s, i, e)
    /\ e <= Len(s)
    /\ s[e] = " "

\* the line at j is not blank and does not begin with a marker
IsContinuation(s, j) ==
    LET line == trim(SubSeq(s, j, LineEnd(s, j) - 1))
    IN  /\ line # <<>>
        /\ \A e \in 2..(Len(line) + 1) : ~IsMarker(line, 1, e)

\* C11: a bullet or number item whose text continues on the next line is
\* returned as one item that holds the text of both lines.
C11_MultiLineItem ==
    \A k \in ListKeys :
        (pc = "done" /\ captured[k].ok) =>
            LET s == trim(captured[k].g)
            IN  \A i \in 1..Len(s), e \in 1..Len(s) :
                    (/\ MarkedLine(s, i, e)
                     /\ LineEnd(s, i) < Len(s)
                     /\ IsContinuation(s, LineEnd(s, i) + 1)) =>
                        \E n \in 1..Len(result[k]) :
                            /\ Contains(result[k][n],
                                        trim(SubSeq(s, e, LineEnd(s, i) - 1)))
                            /\ Contains(result[k][n],
                                        trim(SubSeq(s, LineEnd(s, i) + 1,
                                                    LineEnd(s, LineEnd(s, i) + 1) - 1)))

\* the text captured for a list section is nothing but whitespace and at
\* most one lone bullet marker
EmptyAfterCleaning(s) ==
    \/ trim(s) = <<>>
    \/ Len(trim(s)) = 1 /\ IsBullet(trim(s)[1])

\* C12: a list is empty when its section is absent or its body is empty
\* after cleaning, and no list holds an empty item.
C12_NoEmptyItem ==
    \A k \in ListKeys :
        pc = "done" =>
            /\ (~captured[k].ok \/ EmptyAfterCleaning(captured[k].g))
                   => result[k] = <<>>
            /\ \A n \in 1..Len(result[k]) : result[k][n] # <<>>

\* a heading of section k, in any variant of the table and any letter case,
\* stands at i
HeadingAt(k, t, i) ==
    \E h \in 1..Len(sections[k].heads) : LitAt(t, i, sections[k].heads[h])

\* the first heading of section k stands at i
FirstHeading(k, t, i) ==
    HeadingAt(k, t, i) /\ \A j \in 1..(i - 1) : ~HeadingAt(k, t, j)

\* where the body of the section whose heading stands at i begins: after the
\* first variant of the table that stands there and an optional colon
BodyStart(k, t, i) ==
    LET h == Min({x \in 1..Len(sections[k].heads) : LitAt(t, i, sections[k].heads[x])})
        b == i + Len(sections[k].heads[h])
    IN  IF b <= Len(t) /\ t[b] = ":" THEN b + 1 ELSE b

\* the body ends before the first heading of a later section, or with the text
BodyEnd(k, t, b) ==
    Min({j \in b..Len(t) : \E k2 \in LaterKeys(k) : HeadingAt(k2, t, j)}
        \cup {Len(t) + 1})

SectionBody(k, t, i) ==
    trim(SubSeq(t, BodyStart(k, t, i), BodyEnd(k, t, BodyStart(k, t, i)) - 1))

\* C13: a list section whose heading is followed by a body with some
\* non-whitespace text yields at least one item; a captured text of a single
\* character, which the post-filter removes, yields the one item that is
\* this text with a bullet marker stripped, "*" included.
C13_AtLeastOneItem ==
    \A k \in ListKeys :
        pc = "done" =>
            /\ \A i \in 1..Len(evaluation) :
                  (FirstHeading(k, evaluation, i) /\ SectionBody(k, evaluation, i) # <<>>)
                      => Len(result[k]) >= 1
            /\ (captured[k].ok /\ Len(trim(captured[k].g)) = 1) =>
                  result[k] = << IF IsBullet(trim(captured[k].g)[1])
                                 THEN <<>> ELSE trim(captured[k].g) >>

\* a section whose body is the lone "*": the list is the one empty item
C13_Witness ==
    /\ pc = "done"
    /\ \E k \in ListKeys :
          /\ \E i \in 1..Len(evaluation) :
                FirstHeading(k, evaluation, i) /\ SectionBody(k, evaluation, i) = <<"*">>
          /\ result[k] = << <<>> >>

----------------------------------------------------------------------------
(* The follow-up question on generated texts: the heading and a body of    *)
(* emphasis marks, header marks, whitespace and words.                     *)

FollowHeads == {<<"F", "o", "l", "l", "o", "w", "-", "u", "p", ":", " ">>, <<"F", "o", "l", "l", "o", "w", "-", "u", "p", " ", "Q", "u", "e", "s", "t", "i", "o", "n", NL>>}

FollowFragments == {<<"*">>, <<"*", "*">>, <<" ">>, <<"#", "#", "#", " ">>, <<"#">>, <<"a", "b", "?">>}

\* the number of fragments of a generated follow-up body
MaxFollowFrags == 4

FollowTexts ==
    {h \o b : h \in FollowHeads, b \in Texts(FollowFragments, MaxFollowFrags)}

InitFollowUp == \E t \in FollowTexts : Start(t)

SpecFollowUp == InitFollowUp /\ [][Next]_vars

----------------------------------------------------------------------------
(* C14, C16: the follow-up question.                                       *)

\* the Follow-up section was found with some text in it
HasFollowUp == captured.followUp.ok /\ trim(captured.followUp.g) # <<>>

\* C14: the followUp of a non-empty Follow-up section neither begins nor
\* ends with "*" or whitespace, and does not begin with "### ".
C14_FollowUpStripped ==
    (pc = "done" /\ HasFollowUp /\ result.followUp # <<>>) =>
        /\ result.followUp[1] # "*"
        /\ ~IsSpace(result.followUp[1])
        /\ result.followUp[Len(result.followUp)] # "*"
        /\ ~IsSpace(result.followUp[Len(result.followUp)])
        /\ ~Occurs(result.followUp, 1, <<"#", "#", "#", " ">>)

\* C16: the follow-up cleanup applied to the followUp it returned gives the
\* same text.
C16_FollowUpIdempotent ==
    (pc = "done" /\ HasFollowUp) =>
        followUpText(result.followUp) = result.followUp

----------------------------------------------------------------------------
(* The ideal response on generated texts: the heading and a body of        *)
(* fences, language tags, stray backticks and code.                        *)

IdealHeads == {<<"I", "d", "e", "a", "l", " ", "R", "e", "s", "p", "o", "n", "s", "e", NL>>, <<"M", "o", "d", "e", "l", " ", "A", "n", "s", "w", "e", "r", ":", " ">>}

IdealFragments ==
    {Fence, <<BQ, BQ, BQ, NL>>, <<"j", "s", NL>>, <<"x", NL>>, <<BQ>>, <<" ">>, <<"x">>}

\* the number of fragments of a generated ideal response
MaxIdealFrags == 4

IdealTexts ==
    {h \o b : h \in IdealHeads, b \in Texts(IdealFragments, MaxIdealFrags)}

InitIdeal == \E t \in IdealTexts : Start(t)

SpecIdeal == InitIdeal /\ [][Next]_vars

----------------------------------------------------------------------------
(* C15, C17-C19: the fences of the ideal response.                         *)

\* the Ideal Response section was found with some text in it
HasIdeal == captured.idealResponse.ok /\ trim(captured.idealResponse.g) # <<>>

\* the text of the Ideal Response section as the sanitizer receives it
IdealContent == trim(captured.idealResponse.g)

\* C15: the four fence rules applied to the idealResponse they returned give
\* the same text.
C15_IdealIdempotent ==
    (pc = "done" /\ HasIdeal) =>
        idealResponseText(result.idealResponse) = result.idealResponse

\* where three backticks stand in t
Fences(t) == {i \in 1..Len(t) : Occurs(t, i, Fence)}

\* every backtick of t belongs to a run of exactly three
WellFenced(t) ==
    \A i \in 1..Len(t) :
        t[i] = BQ =>
            \E j \in Fences(t) :
                /\ j <= i
                /\ i <= j + 2
                /\ j = 1 \/ t[j - 1] # BQ
                /\ j + 3 > Len(t) \/ t[j + 3] # BQ

\* the n-th fence of a well-fenced text; the odd ones open a block, the even
\* ones close it
NthFence(t, n) ==
    CHOOSE i \in Fences(t) : Cardinality({j \in Fences(t) : j <= i}) = n

sPythonLine == sPython \o <<NL>>
sJsLine == <<"j", "s", NL>>

\* C17: in a well-fenced Ideal Response, an opening fence directly followed
\* by a newline carries the tag python in the result, and an opening fence
\* with a language tag keeps its tag.
C17_DefaultLanguage ==
    (pc = "done" /\ HasIdeal /\ WellFenced(IdealContent)) =>
        /\ Cardinality(Fences(result.idealResponse)) = Cardinality(Fences(IdealContent))
        /\ \A n \in 1..Cardinality(Fences(IdealContent)) :
              n % 2 = 1 =>
                  /\ Occurs(IdealContent, NthFence(IdealContent, n) + 3, <<NL>>)
                        => Occurs(result.idealResponse,
                                  NthFence(result.idealResponse, n) + 3, sPythonLine)
                  /\ Occurs(IdealContent, NthFence(IdealContent, n) + 3, sJsLine)
                        => Occurs(result.idealResponse,
                                  NthFence(result.idealResponse, n) + 3, sJsLine)

\* the block of the claim: three backticks, newline, code, newline, three
\* backticks; its opening fence has the tag in the result
C17_Witness ==
    /\ pc = "done"
    /\ HasIdeal
    /\ IdealContent = <<BQ, BQ, BQ, NL, "x", NL, BQ, BQ, BQ>>
    /\ result.idealResponse = <<NL, BQ, BQ, BQ, "p", "y", "t", "h", "o", "n", NL, "x", NL, BQ, BQ, BQ>>

\* the fence at i is alone on its line
AloneOnLine(t, i) ==
    /\ LineStart(t, i)
    /\ i + 3 > Len(t) \/ t[i + 3] = NL

\* C18: in a well-fenced Ideal Response, a closing fence that is alone on its
\* line, with or without text after it, is alone on its line in the result.
C18_LoneFenceBare ==
    (pc = "done" /\ HasIdeal /\ WellFenced(IdealContent)) =>
        /\ Cardinality(Fences(result.idealResponse)) = Cardinality(Fences(IdealContent))
        /\ \A n \in 1..Cardinality(Fences(IdealContent)) :
              (n % 2 = 0 /\ AloneOnLine(IdealContent, NthFence(IdealContent, n)))
                  => AloneOnLine(result.idealResponse, NthFence(result.idealResponse, n))

\* C19 as stated: every three backticks of the idealResponse stand at the
\* start of the text or right after a newline.
C19_EveryFenceStartsLine ==
    (pc = "done" /\ HasIdeal) =>
        \A i \in Fences(result.idealResponse) : LineStart(result.idealResponse, i)

\* C19, amended: every run of three or more backticks of the idealResponse
\* begins at the start of the text or right after a newline.
C19_FenceRunsStartLine ==
    (pc = "done" /\ HasIdeal) =>
        \A i \in Fences(result.idealResponse) :
            (i = 1 \/ result.idealResponse[i - 1] # BQ)
                => LineStart(result.idealResponse, i)

\* a fence that stood right after code in the section begins a line of the
\* idealResponse
C19_Witness ==
    /\ pc = "done"
    /\ HasIdeal
    /\ \E i \in Fences(IdealContent) : i > 1 /\ IdealContent[i - 1] = "x"
    /\ Fences(result.idealResponse) # {}
    /\ \A i \in Fences(result.idealResponse) : LineStart(result.idealResponse, i)

----------------------------------------------------------------------------
(* Any text: headings in any order, markdown that is not closed, list      *)
(* items, a score, words, and the empty text.                              *)

AnyFragments ==
    {<<"S", "t", "r", "e", "n", "g", "t", "h", "s", ":">>, <<"I", "m", "p", "r", "o", "v", "e", "m", "e", "n", "t", "s">>, <<"F", "o", "l", "l", "o", "w", "-", "u", "p">>, <<"I", "d", "e", "a", "l", " ", "R", "e", "s", "p", "o", "n", "s", "e">>,
     <<NL>>, <<"*", "*">>, <<"-", " ", "a">>, Fence, <<"S", "c", "o", "r", "e", ":", " ", "3">>, <<"x">>}

\* the number of fragments of a generated text
MaxAnyFrags == 3

AnyTexts == Texts(AnyFragments, MaxAnyFrags)

InitAny == \E t \in AnyTexts : Start(t)

SpecAny == InitAny /\ [][Next]_vars

----------------------------------------------------------------------------
(* C20: the parser is total.                                               *)

\* s is a sequence of characters
IsText(s) ==
    /\ DOMAIN s = 1..Len(s)
    /\ \A i \in 1..Len(s) : s[i] \in STRING

\* l is a sequence of texts
IsList(l) ==
    /\ DOMAIN l = 1..Len(l)
    /\ \A n \in 1..Len(l) : IsText(l[n])

----------------------------------------------------------------------------
(* C21-C24: the default record, the order of the items, lost items, and    *)
(* heading words in prose.                                                 *)

\* no heading of the table stands anywhere in t
NoHeading(t) ==
    \A k \in Keys : \A i \in 1..Len(t) : ~HeadingAt(k, t, i)

\* C21: a text with none of the five headings and no score pattern, the
\* empty text included, gives score 0, three empty lists and two empty texts.
C21_DefaultRecord ==
    (/\ pc = "done"
     /\ NoHeading(evaluation)
     /\ ~HasLabelledScore(evaluation)
     /\ ~HasSlashScore(evaluation))
        => /\ result.score = Zero
           /\ result.strengths = <<>>
           /\ result.improvements = <<>>
           /\ result.missedPoints = <<>>
           /\ result.followUp = <<>>
           /\ result.idealResponse = <<>>

\* a text with a list item, emphasis marks and a fence, but no heading and
\* no score, has been parsed to the end
C21_Witness ==
    /\ pc = "done"
    /\ NoHeading(evaluation)
    /\ ~HasLabelledScore(evaluation)
    /\ ~HasSlashScore(evaluation)
    /\ Contains(evaluation, <<"-", " ", "a">>)
    /\ Contains(evaluation, <<"*", "*">>) \/ Contains(evaluation, Fence)
    /\ result.strengths = <<>>
    /\ result.followUp = <<>>

\* the text of the marked line of s that starts at i, its marker ending at e
ItemText(s, i, e) == trim(SubSeq(s, e, LineEnd(s, i) - 1))

\* some item of l holds a
Holds(l, a) == \E n \in 1..Len(l) : Contains(l[n], a)

\* C22: when two marked lines of a list section, with different texts, are
\* both returned, an item with the text of the earlier line stands before an
\* item with the text of the later line.
C22_ItemsInOrder ==
    \A k \in ListKeys :
        (pc = "done" /\ captured[k].ok) =>
            LET s == trim(captured[k].g)
            IN  \A i \in 1..Len(s), j \in 1..Len(s) :
                    (i < j /\ LineStart(s, i) /\ LineStart(s, j)) =>
                        \A e \in (i + 1)..Len(s), f \in (j + 1)..Len(s) :
                            (/\ MarkedLine(s, i, e)
                             /\ MarkedLine(s, j, f)
                             /\ ItemText(s, i, e) # ItemText(s, j, f)
                             /\ Holds(result[k], ItemText(s, i, e))
                             /\ Holds(result[k], ItemText(s, j, f))) =>
                                \E m \in 1..Len(result[k]), n \in 1..Len(result[k]) :
                                    /\ m < n
                                    /\ Contains(result[k][m], ItemText(s, i, e))
                                    /\ Contains(result[k][n], ItemText(s, j, f))

\* every line of s is a bullet marker, a space and at least two characters
AllBulletLines(s) ==
    /\ s # <<>>
    /\ \A i \in 1..Len(s) :
          LineStart(s, i) =>
              /\ MarkedLine(s, i, i + 1)
              /\ Len(ItemText(s, i, i + 1)) >= 2

\* the number of lines of s
LineCount(s) == Cardinality({i \in 1..Len(s) : LineStart(s, i)})

\* C23: a list section whose body is N >= 2 bullet lines yields N items, the
\* first of them the text of the first line.
C23_NoItemLost ==
    \A k \in ListKeys :
        (/\ pc = "done"
         /\ captured[k].ok
         /\ AllBulletLines(trim(captured[k].g))
         /\ LineCount(trim(captured[k].g)) >= 2) =>
            /\ Len(result[k]) = LineCount(trim(captured[k].g))
            /\ result[k][1] = ItemText(trim(captured[k].g), 1, 2)

\* a heading of section k stands at j in the middle of a line, right after a
\* letter: a word of the prose, not the start of a section
InProse(k, t, j) ==
    /\ j > 1
    /\ HeadingAt(k, t, j)
    /\ toLower(t[j - 1]) \in {"a", "e", "s", "x"}

\* C24: a heading word in the prose of a section does not start the section
\* it names and does not end the text captured for an earlier section.
C24_HeadingsOnlyAtSectionStart ==
    \A k \in Keys :
        \A j \in 1..Len(evaluation) :
            (captured[k].ok /\ InProse(k, evaluation, j)) =>
                /\ captured[k].at # j
                /\ \A k1 \in Keys :
                      (k \in LaterKeys(k1) /\ captured[k1].ok) => captured[k1].e # j


----------------------------------------------------------------------------
(* ProblemPage: localStorage and the effect that saves the problem         *)

\* the keys `problem-${params.id}` and 'problemHistory'
ProblemKey(id) == <<"problem-", id>>
HistoryKey == <<"problemHistory">>

\* JSON.stringify(v): a stored string that JSON.parse turns back into v
Json(v) == [parses |-> TRUE, value |-> v]

\* a stored string on which JSON.parse throws
Corrupt == [parses |-> FALSE, value |-> <<>>]

\* localStorage.getItem(k) is not null
hasItem(store, k) == k \in DOMAIN store

\* localStorage.setItem(k, v)
setItem(store, k, v) ==
    [x \in DOMAIN store \cup {k} |-> IF x = k THEN v ELSE store[x]]

\* the categories of CATEGORY_SECTIONS that the model uses
Categories == {"algorithms", "system_design"}

\* FLATTENED_CATEGORIES.find(c => c.id === id)?.name || 'Unknown'
categoryName(id) ==
    IF id = "algorithms" THEN "Algorithms & Data Structures"
    ELSE IF id = "system_design" THEN "System Design"
    ELSE "Unknown"

\* the length a history title is cut to
TitleLimit == 50

\* the number of entries the history is cut to
HistoryLimit == 50

\* state.currentQuestion.slice(0, 50) + (state.currentQuestion.length > 50 ? '...' : '')
title(q) ==
    IF Len(q) > TitleLimit THEN SubSeq(q, 1, TitleLimit) \o <<".", ".", ".">> ELSE q

\* the historyItem of the save effect; new Date().toLocaleDateString() is one
\* day for the whole behaviour
historyItem(id, s) ==
    [id |-> id,
     title |-> title(s.currentQuestion),
     category |-> categoryName(s.category),
     date |-> "today",
     status |-> IF Len(s.messages) > 1 THEN "completed" ELSE "in-progress"]

\* history.findIndex(item => item.id === id), counted from 1, 0 for not found
findIndex(history, id) ==
    LET S == {i \in 1..Len(history) : history[i].id = id}
    IN  IF S = {} THEN 0 ELSE Min(S)

\* the history after the item is put in, before it is cut
updatedHistory(store, item) ==
    IF hasItem(store, HistoryKey) /\ store[HistoryKey].parses
    THEN LET history == store[HistoryKey].value
             existingIndex == findIndex(history, item.id)
         IN  IF existingIndex > 0
             THEN [history EXCEPT ![existingIndex] = item]
             ELSE <<item>> \o history
    ELSE <<item>>

\* the history kept whole, whatever its length
limited_None(history) == history

\* if (history.length > 50) history = history.slice(0, 50)
limited(history) ==
    IF Len(history) > HistoryLimit THEN SubSeq(history, 1, HistoryLimit) ELSE history

\* the effect with dependencies [state, params.id], run after the render of s
saveEffect(store, id, s) ==
    IF s.isActive
    THEN setItem(setItem(store, ProblemKey(id), Json(s)),
                 HistoryKey, Json(limited(updatedHistory(store, historyItem(id, s)))))
    ELSE store

----------------------------------------------------------------------------
(* The POST handler of the API route                                       *)

\* the question the language model writes for a category, and its raw text
Question(category) == <<"Q", category>>
RawQuestion(category) == <<"{", "Q", category, "}">>

\* the texts the language model writes as an evaluation
EvaluationTexts == {<<>>, <<"S", "c", "o", "r", "e", ":", " ", "3">>}

\* the text of the idealAnswer request; empty when the request fails
IdealAnswers == {<<>>, <<"x">>}

\* a request that has no response yet
NoResponse ==
    [arrived |-> FALSE, ok |-> FALSE, response |-> <<>>, structuredContent |-> <<>>,
     audioData |-> Null, error |-> Null]

\* the status 500 response of the catch blocks
Failure == [NoResponse EXCEPT !.arrived = TRUE, !.error = "Failed to generate response"]

\* what the language model does: throw, write text, write the JSON of a question
LlmOutcomes == {"throws", "text", "json"}

\* what the speech service does: no key configured, fail, return audio
TtsOutcomes == {"nokey", "fails", "audio"}

\* the response of POST to the request c; text is the model's evaluation
respond(c, llm, tts, text) ==
    IF llm = "throws" THEN Failure
    ELSE IF c.kind = "question"
    THEN LET structuredContent ==
                 IF llm = "json"
                 THEN <<[question |-> Question(c.category), hints |-> << <<"h">>, <<"i">>, <<"j">> >>,
                         difficulty |-> "medium"]>>
                 ELSE <<>>
             plain == [NoResponse EXCEPT !.arrived = TRUE, !.ok = TRUE,
                                         !.response = RawQuestion(c.category),
                                         !.structuredContent = structuredContent]
         IN  IF c.voice
             THEN IF tts = "nokey"
                  THEN [plain EXCEPT !.error = "TTS API key not configured"]
                  ELSE IF tts = "fails"
                  THEN [plain EXCEPT !.error = "TTS generation failed"]
                  ELSE [plain EXCEPT !.audioData = "data:audio/mp3;base64"]
             ELSE plain
    ELSE [NoResponse EXCEPT !.arrived = TRUE, !.ok = TRUE, !.response = text]

----------------------------------------------------------------------------
(* ProblemPage: what the handlers compute                                  *)

\* what fetchQuestion makes of a response: it throws or returns the question
fetchQuestion(r) ==
    IF ~r.ok \/ r.error # Null
    THEN [threw |-> TRUE, questionText |-> <<>>, audioData |-> Null, hints |-> <<>>,
          difficulty |-> Null]
    ELSE IF r.structuredContent # <<>>
    THEN [threw |-> FALSE,
          questionText |-> r.structuredContent[1].question,
          audioData |-> r.audioData,
          hints |-> [i \in DOMAIN r.structuredContent[1].hints |->
                        [text |-> r.structuredContent[1].hints[i], visible |-> FALSE]],
          difficulty |-> r.structuredContent[1].difficulty]
    ELSE [threw |-> FALSE, questionText |-> r.response, audioData |-> r.audioData,
          hints |-> <<>>, difficulty |-> "medium"]

\* the evaluations for which evaluateAnswer asks for an ideal answer, those in
\* which parseEvaluationResponse finds a score above 0 and no ideal response:
\* !parsedEval.idealResponse && parsedEval.score > 0
WithoutIdeal == {<<"S", "c", "o", "r", "e", ":", " ", "3">>}

\* what evaluateAnswer returns for a response: <<>> for null, <<text>> for a
\* text; ideal is the text of the idealAnswer request it may make
evaluateAnswer(r, ideal) ==
    IF ~r.ok \/ r.error # Null \/ r.response = <<>>
    THEN <<>>
    ELSE IF r.response \in WithoutIdeal /\ ideal # <<>>
    THEN <<r.response \o <<NL, NL, "#", "#", "#", " ", "I", "d", "e", "a", "l", " ", "R", "e", "s", "p", "o", "n", "s", "e", NL>> \o ideal>>
    ELSE <<r.response>>


----------------------------------------------------------------------------
(* ProblemPage as a state machine.  state is the InterviewState, route the *)
(* page's id, its category query parameter and how far the mount has got,  *)
(* calls the requests of startInterview and submitTextAnswer that are in   *)
(* flight, each with what its handler captured when it was called, and     *)
(* budget the number of requests it may still send.  One field of a request is     *)
(* kept for the statements about it and read by no handler: superseded,    *)
(* whether a later startInterview or resetInterview has run since.         *)

\* the requests one page sends in a behaviour of SpecPage and of SpecHistory
MaxCalls == 3
MaxHistoryCalls == 1

\* the texts the user types
Inputs == {<<" ">>, <<" ", "a", " ">>}

\* the component is mounted: its handlers run and its setState has effect
Mounted == route.phase \in {"ready", "leaving"}

\* the request a handler sends
request(kind, category, answer) ==
    [n |-> budget, kind |-> kind, category |-> category,
     superseded |-> FALSE,
     voice |-> state.voiceModeEnabled, messages |-> state.messages,
     userAnswer |-> answer, response |-> NoResponse]

\* the requests in flight once a new session has begun or the session has ended
supersede(S) == {[c EXCEPT !.superseded = TRUE] : c \in S}

\* startInterview(categoryId) up to the await of fetchQuestion: lines 666-693.
\* The microphone permission, once granted for voice mode, stays granted.
startInterview(categoryId) ==
    /\ budget > 0
    /\ budget' = budget - 1
    /\ state' = [state EXCEPT !.category = categoryId, !.isActive = TRUE,
                              !.isLoading = TRUE, !.currentStep = "question",
                              !.messages = <<>>]
    /\ calls' = supersede(calls) \cup {request("question", categoryId, <<>>)}

\* the effect with dependencies [params, searchParams], at the mount
UrlEffect ==
    /\ route.phase = "url"
    /\ IF route.category # Null
       THEN startInterview(route.category)
       ELSE /\ state' = [state EXCEPT !.isActive = FALSE, !.currentStep = "idle"]
            /\ UNCHANGED <<calls, budget>>
    /\ route' = [route EXCEPT !.phase = "load"]
    /\ UNCHANGED localStorage
    /\ UNCHANGED parserVars

\* the effect with dependencies [params.id], at the mount after UrlEffect; the
\* render that follows the two effects runs the save effect
LoadEffect ==
    /\ route.phase = "load"
    /\ state' = IF hasItem(localStorage, ProblemKey(route.id))
                THEN IF localStorage[ProblemKey(route.id)].parses
                     THEN localStorage[ProblemKey(route.id)].value
                     ELSE state
                ELSE [state EXCEPT !.isActive = FALSE, !.currentStep = "idle"]
    /\ route' = [route EXCEPT !.phase = "ready"]
    /\ localStorage' = saveEffect(localStorage, route.id, state')
    /\ UNCHANGED <<calls, budget>>
    /\ UNCHANGED parserVars

\* a click on a category of the selection, shown while the state is not active
SelectCategory(categoryId) ==
    /\ Mounted
    /\ ~state.isActive
    /\ startInterview(categoryId)
    /\ localStorage' = saveEffect(localStorage, route.id, state')
    /\ UNCHANGED route
    /\ UNCHANGED parserVars

\* the API route answers a request
POST(c) ==
    /\ ~c.response.arrived
    /\ \E llm \in LlmOutcomes, tts \in TtsOutcomes, text \in EvaluationTexts :
          calls' = (calls \ {c}) \cup {[c EXCEPT !.response = respond(c, llm, tts, text)]}
    /\ UNCHANGED <<state, route, budget, localStorage>>
    /\ UNCHANGED parserVars

\* startInterview from the return of fetchQuestion to its end: lines 693-742
QuestionArrives(c) ==
    /\ Mounted
    /\ c.kind = "question"
    /\ c.response.arrived
    /\ LET q == fetchQuestion(c.response)
           shown == [state EXCEPT !.isLoading = FALSE,
                                  !.currentQuestion = q.questionText,
                                  !.messages = <<[role |-> "assistant",
                                                  content |-> q.questionText]>>,
                                  !.hints = q.hints,
                                  !.difficulty = q.difficulty]
       IN  state' = IF q.threw
                    THEN [state EXCEPT !.category = Null, !.isActive = FALSE,
                                       !.currentStep = "idle", !.messages = <<>>,
                                       !.isLoading = FALSE, !.currentQuestion = <<>>]
                    ELSE IF c.voice THEN shown
                    ELSE [shown EXCEPT !.currentStep = "input"]
    /\ calls' = calls \ {c}
    /\ localStorage' = saveEffect(localStorage, route.id, state')
    /\ UNCHANGED <<route, budget>>
    /\ UNCHANGED parserVars

\* the textarea, rendered while the step is "input"
handleTextInputChange(value) ==
    /\ Mounted
    /\ state.isActive
    /\ state.currentStep = "input"
    /\ state' = [state EXCEPT !.textInput = value]
    /\ localStorage' = saveEffect(localStorage, route.id, state')
    /\ UNCHANGED <<route, calls, budget>>
    /\ UNCHANGED parserVars

\* submitTextAnswer up to the await of evaluateAnswer: lines 583-620
submitTextAnswer ==
    /\ Mounted
    /\ state.isActive
    /\ state.currentStep = "input"
    /\ IF trim(state.textInput) = <<>>
       THEN UNCHANGED <<state, calls, budget>>
       ELSE /\ budget > 0
            /\ state' = [state EXCEPT !.isLoading = TRUE, !.currentStep = "evaluating",
                                      !.textInput = <<>>]
            /\ IF state.category # Null
               THEN /\ calls' = calls \cup {request("evaluate", state.category,
                                                    trim(state.textInput))}
                    /\ budget' = budget - 1
               ELSE UNCHANGED <<calls, budget>>
    /\ localStorage' = saveEffect(localStorage, route.id, state')
    /\ UNCHANGED route
    /\ UNCHANGED parserVars

\* submitTextAnswer from the return of evaluateAnswer to its end: lines 620-662
EvaluationArrives(c) ==
    /\ Mounted
    /\ c.kind = "evaluate"
    /\ c.response.arrived
    /\ \E ideal \in IdealAnswers :
          LET evaluated == evaluateAnswer(c.response, ideal)
          IN  state' = IF evaluated # <<>>
                       THEN [state EXCEPT
                               !.isLoading = FALSE,
                               !.currentStep = "idle",
                               !.messages = c.messages \o
                                   <<[role |-> "user", content |-> c.userAnswer],
                                     [role |-> "assistant", content |-> evaluated[1]]>>]
                       ELSE [state EXCEPT !.isLoading = FALSE, !.currentStep = "input"]
    /\ calls' = calls \ {c}
    /\ localStorage' = saveEffect(localStorage, route.id, state')
    /\ UNCHANGED <<route, budget>>
    /\ UNCHANGED parserVars

\* the voice mode button of the interview; granted is what the user answers
\* when asked for the microphone
toggleVoiceMode ==
    /\ Mounted
    /\ state.isActive
    /\ \E granted \in BOOLEAN :
          state' = IF ~state.voiceModeEnabled
                   THEN IF granted THEN [state EXCEPT !.voiceModeEnabled = TRUE] ELSE state
                   ELSE [state EXCEPT !.voiceModeEnabled = FALSE]
    /\ localStorage' = saveEffect(localStorage, route.id, state')
    /\ UNCHANGED <<route, calls, budget>>
    /\ UNCHANGED parserVars

\* the End Interview button: lines 1448-1463, read with the component's state,
\* setState and router; router.push starts the navigation away from the page
resetInterview ==
    /\ Mounted
    /\ state.isActive
    /\ state' = [InitialState EXCEPT !.voiceModeEnabled = state.voiceModeEnabled]
    /\ route' = [route EXCEPT !.phase = "leaving"]
    /\ localStorage' = saveEffect(localStorage, route.id, state')
    /\ calls' = supersede(calls)
    /\ UNCHANGED budget
    /\ UNCHANGED parserVars

\* the navigation completes and the component is unmounted: what is still in
\* flight no longer reaches its state
Unmount ==
    /\ route.phase = "leaving"
    /\ route' = [route EXCEPT !.phase = "left"]
    /\ calls' = {}
    /\ UNCHANGED <<state, budget, localStorage>>
    /\ UNCHANGED parserVars

NextPage ==
    \/ UrlEffect
    \/ LoadEffect
    \/ \E categoryId \in Categories : SelectCategory(categoryId)
    \/ \E c \in calls : POST(c)
    \/ \E c \in calls : QuestionArrives(c)
    \/ \E value \in Inputs : handleTextInputChange(value)
    \/ submitTextAnswer
    \/ \E c \in calls : EvaluationArrives(c)
    \/ toggleVoiceMode
    \/ resetInterview
    \/ Unmount

----------------------------------------------------------------------------
(* The pages that are opened and what localStorage holds when they are     *)

\* a history of k problems opened earlier and left in progress, newest first
OldHistory(k) ==
    [i \in 1..k |-> [id |-> k + 1 - i, title |-> Question("algorithms"),
                     category |-> categoryName("algorithms"), date |-> "today",
                     status |-> "in-progress"]]

\* the state an interview was saved in: its question asked, no answer yet
SavedState ==
    [InitialState EXCEPT !.category = "algorithms", !.isActive = TRUE,
                         !.currentStep = "input",
                         !.currentQuestion = Question("algorithms"),
                         !.messages = <<[role |-> "assistant",
                                         content |-> Question("algorithms")]>>]

\* what a key of localStorage may hold when the page is opened: nothing (the
\* empty sequence), a string that does not parse, a string that does
StoredHistories(sizes) == {<<>>, <<Corrupt>>} \cup {<<Json(OldHistory(k))>> : k \in sizes}

\* localStorage with history h and, for the page id, problem p
stored(id, h, p) ==
    LET withHistory == IF h = <<>> THEN EmptyStorage
                       ELSE setItem(EmptyStorage, HistoryKey, h[1])
    IN  IF p = <<>> THEN withHistory ELSE setItem(withHistory, ProblemKey(id), p[1])

\* the page /problems/id?category=category is opened over the storage
Open(id, category, h, p, requests) ==
    /\ evaluation = <<>>
    /\ pc = "done"
    /\ result = emptyResult
    /\ captured = [k \in Keys |-> NoCapture]
    /\ state = InitialState
    /\ route = [id |-> id, category |-> category, phase |-> "url"]
    /\ calls = {}
    /\ budget = requests
    /\ localStorage = stored(id, h, p)

\* a new problem or the one opened before, with or without a category in the
\* URL, over a short history
InitPage ==
    \E id \in {1}, category \in {Null, "algorithms"},
       h \in StoredHistories({1}),
       p \in {<<>>, <<Corrupt>>, <<Json(SavedState)>>} :
        Open(id, category, h, p, MaxCalls)

SpecPage == InitPage /\ [][NextPage]_vars

\* the oldest problem of the history, saved, or a new one, over a history
\* that is full or one short of full
InitHistory ==
    \E h \in {<<Json(OldHistory(k))>> : k \in {HistoryLimit - 1, HistoryLimit}} :
        \/ Open(1, Null, h, <<Json(SavedState)>>, MaxHistoryCalls)
        \/ Open(HistoryLimit + 1, Null, h, <<>>, MaxHistoryCalls)

SpecHistory == InitHistory /\ [][NextPage]_vars


----------------------------------------------------------------------------
(* Statements about ProblemPage                                            *)

\* the response carries the question and no audio, because the speech service
\* failed or has no key
TtsFellBack(r) ==
    /\ r.arrived /\ r.ok /\ r.audioData = Null
    /\ r.error \in {"TTS API key not configured", "TTS generation failed"}

\* the question text a response carries
QuestionOf(r) ==
    IF r.structuredContent # <<>> THEN r.structuredContent[1].question ELSE r.response

\* the one message of an interview whose question q has just been asked
Asked(q) == <<[role |-> "assistant", content |-> q]>>

\* C25: when audio was requested and the question was generated but the
\* speech service failed or has no key, fetchQuestion returns the question
\* text without audio, and startInterview shows the question instead of
\* resetting the page to the category selection.
C25_TtsFallback ==
    [][\A c \in calls :
          (QuestionArrives(c) /\ c.voice /\ TtsFellBack(c.response)) =>
              /\ ~fetchQuestion(c.response).threw
              /\ fetchQuestion(c.response).questionText = QuestionOf(c.response)
              /\ fetchQuestion(c.response).audioData = Null
              /\ state'.currentQuestion = QuestionOf(c.response)
              /\ state'.messages = Asked(QuestionOf(c.response))
              /\ state'.category = state.category
              /\ state'.isActive = state.isActive]_vars

\* C26: a page opened with a category in the URL and no saved problem starts
\* the interview: after the two mount effects the state is active with that
\* category, and when the question arrives in text mode the state is active,
\* the question is the only message and the step is "input".
C26_UrlStartsInterview ==
    [][/\ (LoadEffect /\ route.category # Null
              /\ ~hasItem(localStorage, ProblemKey(route.id))) =>
              (state'.isActive /\ state'.category = route.category)
       /\ \A c \in calls :
              (QuestionArrives(c) /\ ~fetchQuestion(c.response).threw
                  /\ ~c.voice /\ state.isActive) =>
                  /\ state'.isActive
                  /\ state'.category = state.category
                  /\ state'.messages = Asked(QuestionOf(c.response))
                  /\ state'.currentStep = "input"]_vars

\* C27: the completion of a question request that a later startInterview or
\* resetInterview has superseded changes neither the messages nor the
\* current question nor the hints.
C27_LateFetchIgnored ==
    [][\A c \in calls :
          (QuestionArrives(c) /\ c.superseded) =>
              /\ state'.messages = state.messages
              /\ state'.currentQuestion = state.currentQuestion
              /\ state'.hints = state.hints]_vars

\* evaluateAnswer returns a text for the response, whatever the idealAnswer
\* request gives
Evaluated(r) == evaluateAnswer(r, <<>>) # <<>>

\* C28: a submit of a blank answer sends no request and leaves the state as
\* it is; a submit of any other answer sends the messages with the trimmed
\* answer, and when its evaluation succeeds the messages are those before
\* the submit followed by one user message with the trimmed answer and one
\* assistant message with the evaluation, the step is "idle", isLoading is
\* false and textInput is empty.
C28_SubmitAppends ==
    [][/\ (submitTextAnswer /\ trim(state.textInput) = <<>>) =>
              UNCHANGED <<state, calls>>
       /\ (submitTextAnswer /\ trim(state.textInput) # <<>>) =>
              \E c \in calls' \ calls :
                  /\ c.kind = "evaluate"
                  /\ c.messages = state.messages
                  /\ c.userAnswer = trim(state.textInput)
       /\ \A c \in calls :
              (EvaluationArrives(c) /\ Evaluated(c.response)) =>
                  /\ Len(state'.messages) = Len(c.messages) + 2
                  /\ SubSeq(state'.messages, 1, Len(c.messages)) = c.messages
                  /\ state'.messages[Len(c.messages) + 1] =
                         [role |-> "user", content |-> c.userAnswer]
                  /\ state'.messages[Len(c.messages) + 2].role = "assistant"
                  /\ \E ideal \in IdealAnswers :
                         state'.messages[Len(c.messages) + 2].content =
                             evaluateAnswer(c.response, ideal)[1]
                  /\ state'.currentStep = "idle"
                  /\ ~state'.isLoading
                  /\ state'.textInput = <<>>]_vars

\* C29: when the evaluation of a submitted answer fails, the messages are
\* those before the submit, isLoading is false, the step is "input" and
\* textInput still holds the answer.
C29_FailureRestores ==
    [][\A c \in calls :
          (EvaluationArrives(c) /\ ~Evaluated(c.response)) =>
              /\ state'.messages = c.messages
              /\ ~state'.isLoading
              /\ state'.currentStep = "input"
              /\ trim(state'.textInput) = c.userAnswer]_vars

\* the stored history, where there is one that parses
HistoryStored == hasItem(localStorage, HistoryKey) /\ localStorage[HistoryKey].parses
History == localStorage[HistoryKey].value

\* C30: the stored history never has more than 50 entries nor two entries
\* with the same id; a save of a problem that is in the history replaces its
\* entry where it is, a save of any other problem puts its entry in front,
\* and what then exceeds 50 entries is dropped from the end.
C30_HistoryBounded ==
    /\ [](HistoryStored =>
              /\ Len(History) <= HistoryLimit
              /\ \A i, j \in 1..Len(History) :
                     History[i].id = History[j].id => i = j)
    /\ [][(HistoryStored /\ localStorage' # localStorage) =>
              LET old == History
                  new == localStorage'[HistoryKey].value
                  at == {i \in 1..Len(old) : old[i].id = route.id}
              IN  IF at # {}
                  THEN /\ Len(new) = Len(old)
                       /\ \A i \in 1..Len(old) :
                              IF i \in at THEN new[i].id = route.id
                              ELSE new[i] = old[i]
                  ELSE /\ Len(new) = IF Len(old) < HistoryLimit
                                     THEN Len(old) + 1 ELSE HistoryLimit
                       /\ new[1].id = route.id
                       /\ \A i \in 2..Len(new) : new[i] = old[i - 1]]_vars

\* a full history took the entry of a new problem in front and lost its oldest
C30_Witness ==
    /\ HistoryStored
    /\ Len(History) = HistoryLimit
    /\ History[1].id = HistoryLimit + 1
    /\ History[HistoryLimit].id = 2
    /\ route.id = HistoryLimit + 1
====
